---- MODULE Spec2Model ----
(***************************************************************************)
(* Kobo image downloader (src/app1.py): URL extraction from a table, the   *)
(* extension sniffer, the retrying fetcher download_one, and the           *)
(* 'Start download' run: dispatch to a bounded thread pool, collection in  *)
(* completion order, counting, packaging and the failure report.           *)
(*                                                                         *)
(* Strings are sequences of one-character strings, so that trimming,       *)
(* lower-casing, prefix tests, splitext and name formatting are computed.  *)
(***************************************************************************)
EXTENDS Integers, Sequences, FiniteSets, TLC

\* ------------------------------------------------------------------ bounds
\* Table shape of the extraction specification.
NumCols == 2
NumRows == 2
\* Largest URL list handed to a run, largest pool size and retry count tried.
MaxUrls == 2
MaxConcurrency == 2
MaxRetriesTried == 1
\* Most GETs one run may issue: (max_retries + 1) for each URL.
MaxGets == 4

VARIABLES
    \* the uploaded table and the URL lists of lines 117-119
    df, raw_urls, urls, unique_urls, scanned,
    \* one call of detect_extension: its arguments and its result
    sn_content, sn_content_type, sn_url, sn_ext, sn_called,
    \* the widgets' values
    concurrency, max_retries, start_index,
    \* the destination folder: whether it exists, and its files
    folder_exists, files,
    \* the requests session of the run: "none" until one is opened
    session,
    \* the 'Start download' handler
    pc, next_url, counter, dest_name, results, done, log_lines,
    succ, fail, zip_entries, failed_links, offered,
    \* the executor: its work queue, its worker threads, each task's state
    queue, worker, task, future,
    \* download_one's locals, per task
    attempt, last_exc, opened,
    \* history of each download_one call: the status of every GET it issued
    \* (0: the GET raised), how each attempt ended (its failure reason, None
    \* for the attempt that returned success), its sleeps in half-second
    \* units, the files it opened for writing
    statuses, reasons, sleeps, touched

tableVars == <<df, raw_urls, urls, scanned>>
sniffVars == <<sn_content, sn_content_type, sn_url, sn_ext, sn_called>>
inputVars == <<concurrency, max_retries, start_index>>
runVars   == <<folder_exists, files, session, pc, next_url, counter, dest_name, results,
               done, log_lines, succ, fail, zip_entries, failed_links, offered,
               queue, worker, task, future, attempt, last_exc, opened,
               statuses, reasons, sleeps, touched>>
vars == <<tableVars, unique_urls, sniffVars, inputVars, runVars>>

\* ----------------------------------------------------------- string helpers
\* Python's None, as a value no string equals.
None == <<"<None>">>

Whitespace == {" ", "\t", "\n"}

UpperChars == <<"A","B","C","D","E","F","G","H","I","J","K","L","M",
                "N","O","P","Q","R","S","T","U","V","W","X","Y","Z">>
LowerChars == <<"a","b","c","d","e","f","g","h","i","j","k","l","m",
                "n","o","p","q","r","s","t","u","v","w","x","y","z">>

SetMin(S) == CHOOSE x \in S : \A y \in S : x <= y
SetMax(S) == CHOOSE x \in S : \A y \in S : x >= y

\* str.lower(), one character
LowerChar(c) ==
    IF \E k \in DOMAIN UpperChars : UpperChars[k] = c
    THEN LowerChars[CHOOSE k \in DOMAIN UpperChars : UpperChars[k] = c]
    ELSE c

\* str.lower()
lower(s) == [k \in DOMAIN s |-> LowerChar(s[k])]

\* str.strip(): leading and trailing whitespace removed
strip(s) ==
    LET keep == {k \in DOMAIN s : s[k] \notin Whitespace}
    IN  IF keep = {} THEN <<>> ELSE SubSeq(s, SetMin(keep), SetMax(keep))

\* str.startswith(prefix)
startswith(s, p) == Len(s) >= Len(p) /\ SubSeq(s, 1, Len(p)) = p

\* str.lstrip('.')
lstrip_dot(s) ==
    LET keep == {k \in DOMAIN s : s[k] # "."}
    IN  IF keep = {} THEN <<>> ELSE SubSeq(s, SetMin(keep), Len(s))

\* str.split(';')[0]
split_semi_first(s) ==
    LET at == {k \in DOMAIN s : s[k] = ";"}
    IN  IF at = {} THEN s ELSE SubSeq(s, 1, SetMin(at) - 1)

HttpPrefix  == <<"h","t","t","p",":","/","/">>
HttpsPrefix == <<"h","t","t","p","s",":","/","/">>

\* ------------------------------------------------------------ URL extractor
\* Mutant: the cells are visited row by row, every column of a row in turn.
RECURSIVE CellsRowMajorFrom(_, _, _)
CellsRowMajorFrom(t, c, r) ==
    IF Len(t) = 0 \/ r > Len(t[1]) THEN <<>>
    ELSE IF c > Len(t) THEN CellsRowMajorFrom(t, 1, r + 1)
    ELSE <<t[c][r]>> \o CellsRowMajorFrom(t, c + 1, r)

\* The cells of the table in the order the two loops visit them: for each
\* column in turn, every value of that column from the first row down.
\* t[c][r] is the cell of column c, row r.
RECURSIVE CellsFrom(_, _, _)
CellsFrom(t, c, r) ==
    IF c > Len(t) THEN <<>>
    ELSE IF r > Len(t[c]) THEN CellsFrom(t, c + 1, 1)
    ELSE <<t[c][r]>> \o CellsFrom(t, c, r + 1)

\* The test of line 44 on a trimmed value.
IsHttpValue(val) ==
    startswith(lower(val), HttpPrefix) \/ startswith(lower(val), HttpsPrefix)

\* Mutant: the value is appended as read, without the trim of line 43.
RECURSIVE ScanCellsUntrimmed(_)
ScanCellsUntrimmed(cells) ==
    IF cells = <<>> THEN <<>>
    ELSE (IF IsHttpValue(strip(Head(cells))) THEN <<Head(cells)>> ELSE <<>>)
         \o ScanCellsUntrimmed(Tail(cells))

RECURSIVE ScanCells(_)
ScanCells(cells) ==
    IF cells = <<>> THEN <<>>
    ELSE LET val == strip(Head(cells))
         IN  (IF IsHttpValue(val) THEN <<val>> ELSE <<>>)
             \o ScanCells(Tail(cells))

find_urls_in_df(t) == ScanCells(CellsFrom(t, 1, 1))

\* urls = [u for u in urls if u and len(u) > 6]
LengthFilter(us) == SelectSeq(us, LAMBDA u : u # <<>> /\ Len(u) > 6)

\* list(dict.fromkeys(urls)): the first occurrence of each value, in order
RECURSIVE DedupFrom(_, _)
DedupFrom(us, seen) ==
    IF us = <<>> THEN <<>>
    ELSE IF Head(us) \in seen THEN DedupFrom(Tail(us), seen)
    ELSE <<Head(us)>> \o DedupFrom(Tail(us), seen \cup {Head(us)})

DictFromKeys(us) == DedupFrom(us, {})

\* ------------------------------------------------------ content-type sniffer
PngSignature  == <<137, 80, 78, 71, 13, 10, 26, 10>>
JpegSignature == <<255, 216, 255>>

\* filetype.guess(content): the extension of the matching magic-byte
\* signature, None when no signature matches.
filetype_guess(content) ==
    IF startswith(content, JpegSignature) THEN <<"j","p","g">>
    ELSE IF startswith(content, PngSignature) THEN <<"p","n","g">>
    ELSE None

\* mimetypes.guess_extension(type): the table's extension, with its dot.
\* A media type is a sequence of tokens; the type itself is one token.
mimetypes_guess_extension(type) ==
    IF type = <<"image/jpeg">> THEN <<".","j","p","g">>
    ELSE IF type = <<"image/png">> THEN <<".","p","n","g">>
    ELSE IF type = <<"text/html">> THEN <<".","h","t","m","l">>
    ELSE None

\* The first position from `from` on where s holds a character of C,
\* Len(s)+1 when there is none (str.find), and the last one up to `upto`,
\* 0 when there is none (str.rfind).
FirstAt(s, C, from) ==
    IF \E k \in from..Len(s) : s[k] \in C
    THEN CHOOSE k \in from..Len(s) :
            s[k] \in C /\ \A j \in from..(k - 1) : s[j] \notin C
    ELSE Len(s) + 1
LastAt(s, C, upto) ==
    IF \E k \in 1..upto : s[k] \in C
    THEN CHOOSE k \in 1..upto :
            s[k] \in C /\ \A j \in (k + 1)..upto : s[j] \notin C
    ELSE 0

\* Where the network location of scheme://netloc/... begins.
NetlocStart(url) ==
    IF \E k \in 1..(Len(url) - 2) :
          url[k] = ":" /\ url[k+1] = "/" /\ url[k+2] = "/"
    THEN 3 + CHOOSE k \in 1..(Len(url) - 2) :
                /\ url[k] = ":" /\ url[k+1] = "/" /\ url[k+2] = "/"
                /\ \A j \in 1..(k - 1) : url[j] # ":"
    ELSE 1
PathStart(url) == FirstAt(url, {"/", "?", "#"}, NetlocStart(url))
\* The path ends before the query or the fragment ...
PathStop(url) == FirstAt(url, {"?", "#"}, PathStart(url)) - 1
\* ... and before the parameters (';') of its last segment.
ParamsAt(url) ==
    FirstAt(url, {";"},
            IF LastAt(url, {"/"}, PathStop(url)) >= PathStart(url)
            THEN LastAt(url, {"/"}, PathStop(url)) ELSE PathStart(url))

\* urlparse(url).path
urlparse_path(url) ==
    SubSeq(url, PathStart(url),
           IF ParamsAt(url) <= PathStop(url) THEN ParamsAt(url) - 1
           ELSE PathStop(url))

\* os.path.splitext(path)[1]: from the last dot of the last segment on,
\* unless only dots precede it in that segment.
splitext_ext(path) ==
    IF /\ LastAt(path, {"."}, Len(path)) > LastAt(path, {"/"}, Len(path))
       /\ \E k \in (LastAt(path, {"/"}, Len(path)) + 1)
                      ..(LastAt(path, {"."}, Len(path)) - 1) : path[k] # "."
    THEN SubSeq(path, LastAt(path, {"."}, Len(path)), Len(path))
    ELSE <<>>

\* Lines 62-64 on the extension of the URL's path.
UrlFallback(ext2) ==
    IF ext2 # <<>> /\ Len(ext2) <= 6 THEN lstrip_dot(ext2) ELSE <<"j","p","g">>

\* Lines 60-64; the path and its extension are each computed once.
ExtensionFromUrl(url) ==
    CHOOSE e \in {UrlFallback(ext2) :
                    ext2 \in {splitext_ext(path) :
                                path \in {urlparse_path(url)}}} : TRUE

detect_extension(content, content_type, url) ==
    LET kind    == filetype_guess(content)
        guessed == mimetypes_guess_extension(strip(split_semi_first(content_type)))
    IN  IF kind # None THEN kind
        ELSE IF content_type # <<>> /\ guessed # None THEN lstrip_dot(guessed)
        ELSE ExtensionFromUrl(url)

\* --------------------------------------------------------------- test data
\* Cell values as pandas' astype(str) yields them.
CellPool ==
    { <<" ","h","t","t","p",":","/","/","a","\t">>,
      <<"h","t","t","p",":","/","/","a">>,
      <<"H","T","T","P","S",":","/","/","B">>,
      <<"h","t","t","p",":","/","c">> }

Tables == [1..NumCols -> [1..NumRows -> CellPool]]

TextBody == <<104, 105>>
Contents == { <<>>, PngSignature \o <<0>>, JpegSignature \o <<224>>, TextBody }

ContentTypes ==
    { <<>>,
      <<"image/png">>,
      <<"image/jpeg", ";", " ", "q=1">>,
      <<" ", "text/html", " ", ";", "charset=utf-8">>,
      <<"application/x-kobo">> }

UrlUpperExt == <<"h","t","t","p",":","/","/","a","/","x",".","J","P","G">>
UrlBareDot  == <<"h","t","t","p",":","/","/","a","/","y",".">>
UrlNoExt    == <<"h","t","t","p","s",":","/","/","b",".","c","/","z">>
UrlQuery    == <<"h","t","t","p",":","/","/","a","/","p",".","g","i","f","?","v","=","1",".","5">>
UrlLongExt  == <<"h","t","t","p",":","/","/","a","/","w",".","s","i","x","p","l","u","s">>
UrlDotFile  == <<"h","t","t","p",":","/","/","a","/",".","p","n","g">>

SniffUrls == {UrlUpperExt, UrlBareDot, UrlNoExt, UrlQuery, UrlLongExt, UrlDotFile}

\* The values of the run's variables before 'Start download' is pressed.
RunIdle ==
    /\ folder_exists = FALSE /\ files = <<>> /\ session = "none"
    /\ pc = "idle" /\ next_url = 1 /\ counter = 0
    /\ dest_name = <<>> /\ results = <<>> /\ done = 0 /\ log_lines = <<>>
    /\ succ = 0 /\ fail = 0 /\ zip_entries = <<>> /\ failed_links = <<>>
    /\ offered = {}
    /\ queue = <<>> /\ worker = <<>> /\ task = <<>> /\ future = <<>>
    /\ attempt = <<>> /\ last_exc = <<>> /\ opened = <<>>
    /\ statuses = <<>> /\ reasons = <<>> /\ sleeps = <<>> /\ touched = <<>>

NoTable ==
    df = <<>> /\ raw_urls = <<>> /\ urls = <<>> /\ scanned = FALSE

NoSniff ==
    /\ sn_content = <<>> /\ sn_content_type = <<>> /\ sn_url = <<>>
    /\ sn_ext = None /\ sn_called = FALSE

\* ------------------------------------------- specification: URL extraction
\* Lines 117-119 on an uploaded table.
ScanTable ==
    /\ ~scanned
    /\ raw_urls' = find_urls_in_df(df)
    /\ urls' = LengthFilter(raw_urls')
    /\ unique_urls' = DictFromKeys(urls')
    /\ scanned' = TRUE
    /\ UNCHANGED <<df, sniffVars, inputVars, runVars>>

ExtractInit ==
    /\ df \in Tables
    /\ raw_urls = <<>> /\ urls = <<>> /\ unique_urls = <<>> /\ scanned = FALSE
    /\ NoSniff
    /\ concurrency = 1 /\ max_retries = 0 /\ start_index = 1
    /\ RunIdle

ExtractNext == ScanTable

ExtractSpec == ExtractInit /\ [][ExtractNext]_vars

\* ------------------------------------------ specification: detect_extension
CallDetectExtension ==
    /\ ~sn_called
    /\ sn_ext' = detect_extension(sn_content, sn_content_type, sn_url)
    /\ sn_called' = TRUE
    /\ UNCHANGED <<sn_content, sn_content_type, sn_url, tableVars, unique_urls,
                   inputVars, runVars>>

SniffInit ==
    /\ sn_content \in Contents
    /\ sn_content_type \in ContentTypes
    /\ sn_url \in SniffUrls
    /\ sn_ext = None /\ sn_called = FALSE
    /\ NoTable /\ unique_urls = <<>>
    /\ concurrency = 1 /\ max_retries = 0 /\ start_index = 1
    /\ RunIdle

SniffNext == CallDetectExtension

SniffSpec == SniffInit /\ [][SniffNext]_vars

\* ------------------------------------------------------------ the fetcher
DigitChars == <<"0","1","2","3","4","5","6","7","8","9">>

\* str(n) for n >= 0
RECURSIVE str_int(_)
str_int(n) ==
    IF n < 10 THEN <<DigitChars[n + 1]>>
    ELSE str_int(n \div 10) \o <<DigitChars[(n % 10) + 1]>>

\* Mutant: the name is composed from the start index, not the counter.
BillNameFromStart(n) == <<"b","i","l","l"," ">> \o str_int(start_index)

\* f'bill {counter}'
BillName(n) == <<"b","i","l","l"," ">> \o str_int(n)

\* f"{dest_name}.{ext}"
FinalName(dest, ext) == dest \o <<".">> \o ext

\* f'HTTP {resp.status_code}'
HttpError(code) == <<"H","T","T","P"," ">> \o str_int(code)

\* str(e) of the exceptions the network and the file system raise
TimedOut == <<"t","i","m","e","d"," ","o","u","t">>
IoError  == <<"I","/","O"," ","e","r","r","o","r">>

\* What a server answers with status 200: a body and a Content-Type header
\* ('' when the header is absent, line 74).
Responses200 ==
    { [content |-> PngSignature \o <<0>>, content_type |-> <<"image/jpeg">>],
      [content |-> TextBody, content_type |-> <<>>] }

ErrorStatuses == {404, 500}

coordinatorVars == <<folder_exists, session, pc, next_url, counter, dest_name, results,
                     done, log_lines, succ, fail, zip_entries, failed_links,
                     offered>>
fixedVars == <<tableVars, unique_urls, sniffVars, inputVars>>
\* What a step of download_one leaves alone besides its own locals.
fetchFrame == <<attempt, sleeps, queue, coordinatorVars, fixedVars>>

Tasks == DOMAIN task

WorkerOf(i) == CHOOSE w \in DOMAIN worker : worker[w] = i

\* Mutant: the worker thread is not released when the call returns.
ReturnKeepsWorker(i, value) ==
    /\ future' = [future EXCEPT ![i] = value]
    /\ task' = [task EXCEPT ![i] = "returned"]
    /\ UNCHANGED worker

\* download_one returns: the future is done and its worker thread is free
\* to take the next work item.
Return(i, value) ==
    /\ future' = [future EXCEPT ![i] = value]
    /\ task' = [task EXCEPT ![i] = "returned"]
    /\ worker' = [worker EXCEPT ![WorkerOf(i)] = 0]

\* Mutant: only the first failure reason is kept.
FailAttemptKeepsFirst(i, reason) ==
    /\ last_exc' = [last_exc EXCEPT ![i] = IF @ = None THEN reason ELSE @]
    /\ reasons' = [reasons EXCEPT ![i] = Append(@, reason)]
    /\ task' = [task EXCEPT ![i] = "sleep"]
    /\ UNCHANGED <<future, worker>>

\* Mutant: a failed attempt does not keep its reason.
FailAttemptForgetsReason(i, reason) ==
    /\ reasons' = [reasons EXCEPT ![i] = Append(@, reason)]
    /\ task' = [task EXCEPT ![i] = "sleep"]
    /\ UNCHANGED <<last_exc, future, worker>>

\* A failed attempt: the reason is kept and the backoff sleep begins.
FailAttempt(i, reason) ==
    /\ last_exc' = [last_exc EXCEPT ![i] = reason]
    /\ reasons' = [reasons EXCEPT ![i] = Append(@, reason)]
    /\ task' = [task EXCEPT ![i] = "sleep"]
    /\ UNCHANGED <<future, worker>>

\* session.get raises (connection failure, timeout).
GetRaises(i) ==
    /\ task[i] = "get"
    /\ statuses' = [statuses EXCEPT ![i] = Append(@, 0)]
    /\ FailAttempt(i, TimedOut)
    /\ UNCHANGED <<files, opened, touched, fetchFrame>>

\* The response's status is not 200.
GetErrorStatus(i) ==
    /\ task[i] = "get"
    /\ \E code \in ErrorStatuses :
          /\ statuses' = [statuses EXCEPT ![i] = Append(@, code)]
          /\ FailAttempt(i, HttpError(code))
    /\ UNCHANGED <<files, opened, touched, fetchFrame>>

\* Status 200, and reading resp.content raises (the body is streamed).
Get200ReadRaises(i) ==
    /\ task[i] = "get"
    /\ statuses' = [statuses EXCEPT ![i] = Append(@, 200)]
    /\ FailAttempt(i, TimedOut)
    /\ UNCHANGED <<files, opened, touched, fetchFrame>>

\* Status 200, the body is read and the name composed; open(..., 'wb')
\* raises and leaves the folder as it was.
Get200OpenRaises(i) ==
    /\ task[i] = "get"
    /\ statuses' = [statuses EXCEPT ![i] = Append(@, 200)]
    /\ FailAttempt(i, IoError)
    /\ UNCHANGED <<files, opened, touched, fetchFrame>>

\* Status 200, the body is read, the name composed, and open(..., 'wb')
\* creates the file or truncates the one of that name.
Get200Open(i) ==
    /\ task[i] = "get"
    /\ \E resp \in Responses200 :
          LET ext == detect_extension(resp.content, resp.content_type,
                                      unique_urls[i])
              final_name == FinalName(dest_name[i], ext)
          IN  /\ files' = (final_name :> [data |-> <<>>, writer |-> i]) @@ files
              /\ opened' = [opened EXCEPT ![i] = <<final_name, resp.content>>]
              /\ touched' = [touched EXCEPT ![i] = @ \cup {final_name}]
    /\ statuses' = [statuses EXCEPT ![i] = Append(@, 200)]
    /\ task' = [task EXCEPT ![i] = "write"]
    /\ UNCHANGED <<last_exc, reasons, future, worker, fetchFrame>>

\* Mutant: the worker appends its own outcome to the results.
WriteFileAppendsResult(i) ==
    /\ task[i] = "write"
    /\ files' = [files EXCEPT ![opened[i][1]] =
                     [data |-> opened[i][2], writer |-> 0]]
    /\ opened' = [opened EXCEPT ![i] = <<>>]
    /\ reasons' = [reasons EXCEPT ![i] = Append(@, None)]
    /\ Return(i, <<TRUE, opened[i][1], None>>)
    /\ results' = Append(results, <<unique_urls[i], opened[i][1], TRUE, None>>)
    /\ UNCHANGED <<last_exc, statuses, touched, attempt, sleeps, queue,
                   folder_exists, session, pc, next_url, counter, dest_name,
                   done, log_lines, succ, fail, zip_entries, failed_links,
                   offered, fixedVars>>

\* f.write(content) and the close succeed: return True, final_name, None.
WriteFile(i) ==
    /\ task[i] = "write"
    /\ files' = [files EXCEPT ![opened[i][1]] =
                     [data |-> opened[i][2], writer |-> 0]]
    /\ opened' = [opened EXCEPT ![i] = <<>>]
    /\ reasons' = [reasons EXCEPT ![i] = Append(@, None)]
    /\ Return(i, <<TRUE, opened[i][1], None>>)
    /\ UNCHANGED <<last_exc, statuses, touched, fetchFrame>>

\* f.write(content) raises: the with-block closes the truncated file and
\* the exception is caught at line 83.
WriteRaises(i) ==
    /\ task[i] = "write"
    /\ files' = [files EXCEPT ![opened[i][1]] = [data |-> <<>>, writer |-> 0]]
    /\ opened' = [opened EXCEPT ![i] = <<>>]
    /\ FailAttempt(i, IoError)
    /\ UNCHANGED <<statuses, touched, fetchFrame>>

\* Mutant: every backoff sleep lasts one half-second unit.
SleepConstant(i) ==
    /\ task[i] = "sleep"
    /\ sleeps' = [sleeps EXCEPT ![i] = Append(@, 1)]
    /\ attempt' = [attempt EXCEPT ![i] = @ + 1]
    /\ IF attempt[i] + 1 < max_retries + 1
       THEN /\ task' = [task EXCEPT ![i] = "get"]
            /\ UNCHANGED <<future, worker>>
       ELSE Return(i, <<FALSE, None, last_exc[i]>>)
    /\ UNCHANGED <<last_exc, files, opened, statuses, reasons, touched, queue,
                   coordinatorVars, fixedVars>>

\* time.sleep(0.5 * (attempt+1)) ends; the loop goes on to the next attempt
\* or, attempts exhausted, download_one returns False, None, last_exc.
Sleep(i) ==
    /\ task[i] = "sleep"
    /\ sleeps' = [sleeps EXCEPT ![i] = Append(@, attempt[i] + 1)]
    /\ attempt' = [attempt EXCEPT ![i] = @ + 1]
    /\ IF attempt[i] + 1 < max_retries + 1
       THEN /\ task' = [task EXCEPT ![i] = "get"]
            /\ UNCHANGED <<future, worker>>
       ELSE Return(i, <<FALSE, None, last_exc[i]>>)
    /\ UNCHANGED <<last_exc, files, opened, statuses, reasons, touched, queue,
                   coordinatorVars, fixedVars>>

\* ------------------------------------------------------------ the executor
workerVars == <<files, future, attempt, last_exc, opened, statuses, reasons,
                sleeps, touched>>

\* Mutant: a thread takes a work item while its call is still running.
TakeWorkWhileBusy(w) ==
    /\ w \in DOMAIN worker
    /\ queue # <<>>
    /\ worker' = [worker EXCEPT ![w] = Head(queue)]
    /\ queue' = Tail(queue)
    /\ task' = [task EXCEPT ![Head(queue)] = "get"]
    /\ attempt' = [attempt EXCEPT ![Head(queue)] = 0]
    /\ last_exc' = [last_exc EXCEPT ![Head(queue)] = None]
    /\ UNCHANGED <<files, future, opened, statuses, reasons, sleeps, touched,
                   coordinatorVars, fixedVars>>

\* An idle worker thread of the pool takes the oldest queued work item and
\* calls download_one (lines 68-69: last_exc = None, first attempt).
TakeWork(w) ==
    /\ w \in DOMAIN worker
    /\ worker[w] = 0
    /\ queue # <<>>
    /\ worker' = [worker EXCEPT ![w] = Head(queue)]
    /\ queue' = Tail(queue)
    /\ task' = [task EXCEPT ![Head(queue)] = "get"]
    /\ attempt' = [attempt EXCEPT ![Head(queue)] = 0]
    /\ last_exc' = [last_exc EXCEPT ![Head(queue)] = None]
    /\ UNCHANGED <<files, future, opened, statuses, reasons, sleeps, touched,
                   coordinatorVars, fixedVars>>

\* --------------------------------------------- the 'Start download' handler
\* Lines 126-142: the warning on an empty list; otherwise the folder, the
\* session, the empty results, the counter and the executor.
StartDownload ==
    /\ pc = "idle"
    /\ IF unique_urls = <<>>
       THEN /\ pc' = "warned"
            /\ UNCHANGED <<folder_exists, session, counter, worker, task, future,
                           dest_name, attempt, last_exc, opened, statuses,
                           reasons, sleeps, touched>>
       ELSE /\ pc' = "dispatch"
            /\ folder_exists' = TRUE
            /\ session' = "basic-auth"
            /\ counter' = start_index - 1
            /\ worker' = [w \in 1..concurrency |-> 0]
            /\ task' = [i \in DOMAIN unique_urls |-> "new"]
            /\ future' = [i \in DOMAIN unique_urls |-> None]
            /\ dest_name' = [i \in DOMAIN unique_urls |-> None]
            /\ attempt' = [i \in DOMAIN unique_urls |-> 0]
            /\ last_exc' = [i \in DOMAIN unique_urls |-> None]
            /\ opened' = [i \in DOMAIN unique_urls |-> <<>>]
            /\ statuses' = [i \in DOMAIN unique_urls |-> <<>>]
            /\ reasons' = [i \in DOMAIN unique_urls |-> <<>>]
            /\ sleeps' = [i \in DOMAIN unique_urls |-> <<>>]
            /\ touched' = [i \in DOMAIN unique_urls |-> {}]
    /\ UNCHANGED <<files, next_url, results, done, log_lines, succ, fail,
                   zip_entries, failed_links, offered, queue, fixedVars>>

\* Mutant: the name is composed before the counter is incremented.
SubmitNameBeforeIncrement ==
    /\ pc = "dispatch"
    /\ next_url <= Len(unique_urls)
    /\ counter' = counter + 1
    /\ dest_name' = [dest_name EXCEPT ![next_url] = BillName(counter)]
    /\ task' = [task EXCEPT ![next_url] = "queued"]
    /\ queue' = Append(queue, next_url)
    /\ next_url' = next_url + 1
    /\ UNCHANGED <<folder_exists, session, pc, results, done, log_lines, succ, fail,
                   zip_entries, failed_links, offered, worker, workerVars,
                   fixedVars>>

\* Lines 146-150, one pass of the loop: the next URL gets the next name and
\* is submitted.
Submit ==
    /\ pc = "dispatch"
    /\ next_url <= Len(unique_urls)
    /\ counter' = counter + 1
    /\ dest_name' = [dest_name EXCEPT ![next_url] = BillName(counter')]
    /\ task' = [task EXCEPT ![next_url] = "queued"]
    /\ queue' = Append(queue, next_url)
    /\ next_url' = next_url + 1
    /\ UNCHANGED <<folder_exists, session, pc, results, done, log_lines, succ, fail,
                   zip_entries, failed_links, offered, worker, workerVars,
                   fixedVars>>

\* Lines 152-153: the dispatch loop is over, collection begins.
BeginCollect ==
    /\ pc = "dispatch"
    /\ next_url > Len(unique_urls)
    /\ pc' = "collect"
    /\ done' = 0
    /\ log_lines' = <<>>
    /\ UNCHANGED <<folder_exists, session, next_url, counter, dest_name, results, succ,
                   fail, zip_entries, failed_links, offered, queue, worker,
                   task, workerVars, fixedVars>>

OkLine(url, final_name) ==
    <<"O","K",":"," ">> \o url \o <<" ","-",">"," ">> \o final_name
FailLine(url, error) ==
    <<"F","A","I","L",":"," ">> \o url \o <<" ","-",">"," ">> \o error

\* Mutant: a failed outcome is logged and not appended to the results.
CollectDropsFailures(i) ==
    /\ pc = "collect"
    /\ task[i] = "returned"
    /\ done' = done + 1
    /\ IF future[i][1]
       THEN /\ log_lines' = Append(log_lines, OkLine(unique_urls[i], future[i][2]))
            /\ results' = Append(results, <<unique_urls[i], future[i][2], TRUE, None>>)
       ELSE /\ log_lines' = Append(log_lines, FailLine(unique_urls[i], future[i][3]))
            /\ UNCHANGED results
    /\ task' = [task EXCEPT ![i] = "collected"]
    /\ UNCHANGED <<folder_exists, session, pc, next_url, counter, dest_name, succ, fail,
                   zip_entries, failed_links, offered, queue, worker,
                   workerVars, fixedVars>>

\* Mutant: only a successful outcome advances the completed-count.
CollectCountsSuccesses(i) ==
    /\ pc = "collect"
    /\ task[i] = "returned"
    /\ done' = IF future[i][1] THEN done + 1 ELSE done
    /\ IF future[i][1]
       THEN /\ log_lines' = Append(log_lines, OkLine(unique_urls[i], future[i][2]))
            /\ results' = Append(results, <<unique_urls[i], future[i][2], TRUE, None>>)
       ELSE /\ log_lines' = Append(log_lines, FailLine(unique_urls[i], future[i][3]))
            /\ results' = Append(results, <<unique_urls[i], None, FALSE, future[i][3]>>)
    /\ task' = [task EXCEPT ![i] = "collected"]
    /\ UNCHANGED <<folder_exists, session, pc, next_url, counter, dest_name, succ, fail,
                   zip_entries, failed_links, offered, queue, worker,
                   workerVars, fixedVars>>

\* Lines 154-168, one pass of the as_completed loop over a finished future.
Collect(i) ==
    /\ pc = "collect"
    /\ task[i] = "returned"
    /\ LET url == unique_urls[i]
           success == future[i][1]
           final_name == future[i][2]
           error == future[i][3]
       IN  /\ done' = done + 1
           /\ IF success
              THEN /\ log_lines' = Append(log_lines, OkLine(url, final_name))
                   /\ results' = Append(results, <<url, final_name, TRUE, None>>)
              ELSE /\ log_lines' = Append(log_lines, FailLine(url, error))
                   /\ results' = Append(results, <<url, None, FALSE, error>>)
    /\ task' = [task EXCEPT ![i] = "collected"]
    /\ UNCHANGED <<folder_exists, session, pc, next_url, counter, dest_name, succ, fail,
                   zip_entries, failed_links, offered, queue, worker,
                   workerVars, fixedVars>>

\* sum(1 for r in results if r[2]) and sum(1 for r in results if not r[2])
CountOk(rs)   == Cardinality({k \in DOMAIN rs : rs[k][3]})
CountFail(rs) == Cardinality({k \in DOMAIN rs : ~rs[k][3]})

\* Mutant: the archive is written without asking whether the file exists.
RECURSIVE ZipNamesUnchecked(_, _)
ZipNamesUnchecked(rs, disk) ==
    IF rs = <<>> THEN <<>>
    ELSE (IF Head(rs)[3] /\ Head(rs)[2] # None /\ Head(rs)[2] # <<>>
          THEN <<Head(rs)[2]>> ELSE <<>>)
         \o ZipNamesUnchecked(Tail(rs), disk)

\* Mutant: the archive takes every file found in the folder.
RECURSIVE ZipNamesWholeFolder(_, _)
ZipNamesWholeFolder(rs, disk) ==
    IF DOMAIN disk = {} THEN <<>>
    ELSE <<CHOOSE n \in DOMAIN disk : TRUE>>
         \o ZipNamesWholeFolder(rs,
                [m \in DOMAIN disk \ {CHOOSE n \in DOMAIN disk : TRUE} |-> disk[m]])

\* The names the archive is written with (lines 178-182).
RECURSIVE ZipNames(_, _)
ZipNames(rs, disk) ==
    IF rs = <<>> THEN <<>>
    ELSE LET fname == Head(rs)[2]
             ok == Head(rs)[3]
         IN  (IF ok /\ fname # None /\ fname # <<>> /\ fname \in DOMAIN disk
              THEN <<fname>> ELSE <<>>)
             \o ZipNames(Tail(rs), disk)

\* Mutant: the report is built from the successful outcomes.
RECURSIVE FailedLinksOfOk(_)
FailedLinksOfOk(rs) ==
    IF rs = <<>> THEN <<>>
    ELSE (IF Head(rs)[3] THEN <<Head(rs)[1]>> ELSE <<>>)
         \o FailedLinksOfOk(Tail(rs))

\* failed_links = [url for url, _, ok, _ in results if not ok]
RECURSIVE FailedLinks(_)
FailedLinks(rs) ==
    IF rs = <<>> THEN <<>>
    ELSE (IF ~Head(rs)[3] THEN <<Head(rs)[1]>> ELSE <<>>)
         \o FailedLinks(Tail(rs))

\* Mutant: the archive is offered whatever the number of successes.
FinishAlwaysOffersZip ==
    /\ pc = "collect"
    /\ \A i \in Tasks : task[i] = "collected"
    /\ pc' = "finished"
    /\ succ' = CountOk(results)
    /\ fail' = CountFail(results)
    /\ zip_entries' = ZipNames(results, files)
    /\ failed_links' = IF fail' > 0 THEN FailedLinks(results) ELSE <<>>
    /\ offered' = {"zip"} \cup (IF fail' > 0 THEN {"csv"} ELSE {})
    /\ UNCHANGED <<folder_exists, session, next_url, counter, dest_name, results, done,
                   log_lines, queue, worker, task, workerVars, fixedVars>>

\* Mutant: counting and packaging do not wait for the futures.
FinishEarly ==
    /\ pc = "collect"
    /\ pc' = "finished"
    /\ succ' = CountOk(results)
    /\ fail' = CountFail(results)
    /\ zip_entries' = IF succ' > 0 THEN ZipNames(results, files) ELSE <<>>
    /\ failed_links' = IF fail' > 0 THEN FailedLinks(results) ELSE <<>>
    /\ offered' = (IF succ' > 0 THEN {"zip"} ELSE {})
                   \cup (IF fail' > 0 THEN {"csv"} ELSE {})
    /\ UNCHANGED <<folder_exists, session, next_url, counter, dest_name, results, done,
                   log_lines, queue, worker, task, workerVars, fixedVars>>

\* Lines 170-194: every future has been collected and the executor shut
\* down; the counts, the archive and the failure report.
Finish ==
    /\ pc = "collect"
    /\ \A i \in Tasks : task[i] = "collected"
    /\ pc' = "finished"
    /\ succ' = CountOk(results)
    /\ fail' = CountFail(results)
    /\ zip_entries' = IF succ' > 0 THEN ZipNames(results, files) ELSE <<>>
    /\ failed_links' = IF fail' > 0 THEN FailedLinks(results) ELSE <<>>
    /\ offered' = (IF succ' > 0 THEN {"zip"} ELSE {})
                   \cup (IF fail' > 0 THEN {"csv"} ELSE {})
    /\ UNCHANGED <<folder_exists, session, next_url, counter, dest_name, results, done,
                   log_lines, queue, worker, task, workerVars, fixedVars>>

\* --------------------------------------------------- specification: a run
UrlPool == <<UrlUpperExt, UrlNoExt, UrlBareDot, UrlQuery, UrlDotFile>>
UrlLists == {SubSeq(UrlPool, 1, m) : m \in 0..MaxUrls}
StartIndexes == {1, 9}

Init ==
    /\ NoTable
    /\ unique_urls \in UrlLists
    /\ NoSniff
    /\ concurrency \in 1..MaxConcurrency
    /\ max_retries \in 0..MaxRetriesTried
    /\ start_index \in StartIndexes
    /\ Len(unique_urls) * (max_retries + 1) <= MaxGets
    /\ RunIdle

Next ==
    \/ StartDownload
    \/ Submit
    \/ BeginCollect
    \/ \E w \in DOMAIN worker : TakeWork(w)
    \/ \E i \in Tasks : GetRaises(i)
    \/ \E i \in Tasks : GetErrorStatus(i)
    \/ \E i \in Tasks : Get200ReadRaises(i)
    \/ \E i \in Tasks : Get200OpenRaises(i)
    \/ \E i \in Tasks : Get200Open(i)
    \/ \E i \in Tasks : WriteFile(i)
    \/ \E i \in Tasks : WriteRaises(i)
    \/ \E i \in Tasks : Sleep(i)
    \/ \E i \in Tasks : Collect(i)
    \/ Finish

Spec == Init /\ [][Next]_vars

\* The threads are scheduled, and every GET, write and sleep ends: while
\* some thread has a step to take, some step is taken.
FairSpec == Spec /\ WF_vars(Next)

\* ------------------------------- specification: a run and the file system
\* Somebody else deletes a file of the folder after the last outcome has
\* been collected and before the archive is built.
ExternalRemove(n) ==
    /\ pc = "collect"
    /\ Tasks # {}
    /\ \A i \in Tasks : task[i] = "collected"
    /\ n \in DOMAIN files
    /\ files' = [m \in DOMAIN files \ {n} |-> files[m]]
    /\ UNCHANGED <<future, attempt, last_exc, opened, statuses, reasons, sleeps,
                   touched, queue, worker, task, coordinatorVars, fixedVars>>

PackNext ==
    \/ Next
    \/ \E n \in DOMAIN files : ExternalRemove(n)

PackSpec == Init /\ [][PackNext]_vars

\* --------------------------- specification: a run into a folder in use
\* What an earlier run from index 1 left in the folder.
OldData == <<71, 73, 70>>
PriorFiles ==
    (<<"b","i","l","l"," ","1",".","g","i","f">> :> [data |-> OldData, writer |-> 0])
    @@ (<<"b","i","l","l"," ","1",".","p","n","g">> :> [data |-> OldData, writer |-> 0])

\* The folder holds the earlier run's files, or, for an empty URL list,
\* may not exist yet.
RerunInit ==
    /\ NoTable
    /\ unique_urls \in UrlLists
    /\ NoSniff
    /\ concurrency \in 1..MaxConcurrency
    /\ max_retries \in 0..MaxRetriesTried
    /\ start_index \in StartIndexes
    /\ Len(unique_urls) * (max_retries + 1) <= MaxGets
    /\ folder_exists \in BOOLEAN
    /\ unique_urls # <<>> => folder_exists
    /\ files = IF folder_exists THEN PriorFiles ELSE <<>>
    /\ session = "none"
    /\ pc = "idle" /\ next_url = 1 /\ counter = 0
    /\ dest_name = <<>> /\ results = <<>> /\ done = 0 /\ log_lines = <<>>
    /\ succ = 0 /\ fail = 0 /\ zip_entries = <<>> /\ failed_links = <<>>
    /\ offered = {}
    /\ queue = <<>> /\ worker = <<>> /\ task = <<>> /\ future = <<>>
    /\ attempt = <<>> /\ last_exc = <<>> /\ opened = <<>>
    /\ statuses = <<>> /\ reasons = <<>> /\ sleeps = <<>> /\ touched = <<>>

RerunSpec == RerunInit /\ [][Next]_vars

\* ------------------------------------------------------------------ claims
Range(s) == {s[k] : k \in DOMAIN s}
Returned(i) == task[i] \in {"returned", "collected"}
Executing(i) == task[i] \in {"get", "write", "sleep"}
Succeeded(i) == Returned(i) /\ future[i][1]
Failed(i) == Returned(i) /\ ~future[i][1]

\* The base name the i-th URL of the list is to get.
ExpectedBase(i) == <<"b","i","l","l"," ">> \o str_int(start_index + i - 1)

\* C1: the i-th URL of the list is handed the base name 'bill S+i-1', in
\* every state of every interleaving: the name a submitted task holds, the
\* files it opens and the file name it returns all carry that base name.
C1_NamesFollowInputOrder ==
    \A i \in Tasks :
        /\ task[i] # "new" => dest_name[i] = ExpectedBase(i)
        /\ \A n \in touched[i] : startswith(n, ExpectedBase(i) \o <<".">>)
        /\ Succeeded(i) => startswith(future[i][2], ExpectedBase(i) \o <<".">>)

\* C1 witness: a finished run from index 9 whose second URL completed first
\* and was written as 'bill 10.<ext>'.
C1_Witness ==
    /\ pc = "finished" /\ start_index = 9 /\ Len(unique_urls) = 2
    /\ results[1][1] = unique_urls[2]
    /\ results[1][3]
    /\ startswith(results[1][2], <<"b","i","l","l"," ","1","0",".">>)

\* C2: at the end of a run there is exactly one outcome per URL, and the
\* successes and failures partition the URL list.
C2_OneOutcomePerUrl ==
    pc = "finished" =>
        /\ Len(results) = Len(unique_urls)
        /\ succ + fail = Len(unique_urls)
        /\ \A u \in Range(unique_urls) :
              Cardinality({k \in DOMAIN results : results[k][1] = u}) = 1
        /\ succ = Cardinality({k \in DOMAIN results : results[k][3] = TRUE})
        /\ fail = Cardinality({k \in DOMAIN results : results[k][3] = FALSE})

\* C2 witness: a finished run of two URLs with one success and one failure.
C2_Witness ==
    /\ pc = "finished" /\ Len(unique_urls) = 2 /\ succ = 1 /\ fail = 1

\* C3 as claimed: at most R+1 GETs; a failure return comes after exactly
\* R+1 attempts with the last attempt's reason; an attempt that gets status
\* 200 is the last attempt and the call returns success.
C3_Status200EndsTheCall ==
    \A i \in Tasks :
        /\ Len(statuses[i]) <= max_retries + 1
        /\ Failed(i) =>
              /\ Len(statuses[i]) = max_retries + 1
              /\ future[i][3] = reasons[i][Len(reasons[i])]
        /\ \A k \in DOMAIN statuses[i] :
              statuses[i][k] = 200 =>
                  /\ k = Len(statuses[i])
                  /\ Returned(i) => future[i][1]

\* C3 amended: at most R+1 GETs; a failure return comes after exactly R+1
\* attempts, each of which failed (a status other than 200, or an exception
\* from the GET, the body read, the open or the write, also after a status
\* 200), and carries the reason of the last attempt; an attempt that gets
\* status 200 and whose read and write complete is the last attempt, and
\* then, and only then, the call returns success.
C3_RetriesAndLastReason ==
    \A i \in Tasks :
        /\ Len(statuses[i]) <= max_retries + 1
        /\ Failed(i) =>
              /\ Len(statuses[i]) = max_retries + 1
              /\ Len(reasons[i]) = max_retries + 1
              /\ \A k \in DOMAIN reasons[i] : reasons[i][k] # None
              /\ future[i][3] = reasons[i][max_retries + 1]
        /\ \A k \in DOMAIN reasons[i] :
              reasons[i][k] = None =>
                  /\ statuses[i][k] = 200
                  /\ k = Len(statuses[i])
                  /\ Succeeded(i)
        /\ Succeeded(i) => reasons[i][Len(reasons[i])] = None

\* C3 witness: a call that failed after two attempts with different
\* reasons, the first of them a status 200 whose write raised.
C3_Witness ==
    \E i \in Tasks :
        /\ Failed(i) /\ max_retries = 1
        /\ statuses[i] = <<200, 404>>
        /\ reasons[i] = <<IoError, HttpError(404)>>
        /\ future[i][3] = HttpError(404)

\* C4: once 'Start download' has begun dispatching a non-empty list, the
\* run reaches the finished state with an outcome for every URL.
C4_RunCompletes ==
    (pc = "dispatch") ~> (pc = "finished" /\ Len(results) = Len(unique_urls))

\* C4 witness: a finished run in which one URL saw a non-200 status and an
\* exception and failed, and the other succeeded.
C4_Witness ==
    /\ pc = "finished" /\ Len(results) = 2
    /\ \E i, j \in Tasks :
          /\ Failed(i) /\ 404 \in Range(statuses[i]) /\ 0 \in Range(statuses[i])
          /\ Succeeded(j)

\* The test of the claim on a string: it begins, in any letter case, with
\* http:// or https://.
HasHttpSchemeCI(u) ==
    \E p \in {HttpPrefix, HttpsPrefix} :
        /\ Len(u) >= Len(p)
        /\ \A j \in 1..Len(p) : LowerChar(u[j]) = p[j]

TableCells == {df[c][r] : c \in 1..NumCols, r \in 1..NumRows}

FirstPos(s, x) == SetMin({k \in DOMAIN s : s[k] = x})

\* C5: the URL list of a scanned table holds only trimmed cell strings that
\* begin case-insensitively with http:// or https:// and are longer than 6,
\* holds none twice, keeps them in the order of their first occurrence in
\* the raw list, and holds every cell that qualifies.
C5_ExtractorOutput ==
    scanned =>
        /\ \A k \in DOMAIN unique_urls :
              /\ \E cell \in TableCells : unique_urls[k] = strip(cell)
              /\ unique_urls[k][1] \notin Whitespace
              /\ unique_urls[k][Len(unique_urls[k])] \notin Whitespace
              /\ HasHttpSchemeCI(unique_urls[k])
              /\ Len(unique_urls[k]) > 6
        /\ \A a, b \in DOMAIN unique_urls :
              a < b =>
                  /\ unique_urls[a] # unique_urls[b]
                  /\ unique_urls[a] \in Range(raw_urls)
                  /\ unique_urls[b] \in Range(raw_urls)
                  /\ FirstPos(raw_urls, unique_urls[a])
                        < FirstPos(raw_urls, unique_urls[b])
        /\ \A cell \in TableCells :
              (HasHttpSchemeCI(strip(cell)) /\ Len(strip(cell)) > 6)
                  => strip(cell) \in Range(unique_urls)

\* C5 witness: a scanned table with a cell that needed trimming, a
\* duplicate that was dropped, an upper-case scheme and a cell that does
\* not qualify.
C5_Witness ==
    /\ scanned
    /\ Len(raw_urls) = 3 /\ Len(unique_urls) = 2
    /\ \E cell \in TableCells : cell # strip(cell) /\ strip(cell) \in Range(unique_urls)
    /\ \E u \in Range(unique_urls) : u[1] = "H"
    /\ \E cell \in TableCells : ~HasHttpSchemeCI(strip(cell))

\* C6 as claimed: detect_extension returns a non-empty, lower-case
\* extension with no leading dot, whatever its arguments.
C6_SnifferTotal ==
    sn_called =>
        /\ sn_ext # None
        /\ sn_ext # <<>>
        /\ sn_ext[1] # "."
        /\ \A k \in DOMAIN sn_ext : sn_ext[k] \notin Range(UpperChars)

NumExecuting == Cardinality({i \in Tasks : Executing(i)})

\* C7: never more than `concurrency` calls of download_one execute; a
\* queued task starts only in a state with fewer than `concurrency`
\* executing; a worker holding a task lets go of it only when that call
\* returns, and every executing call is held by exactly one worker.
C7_BoundedPool ==
    /\ [](/\ NumExecuting <= concurrency
          /\ \A i \in Tasks :
                Executing(i) =>
                    Cardinality({w \in DOMAIN worker : worker[w] = i}) = 1
          /\ \A w \in DOMAIN worker : worker[w] # 0 => Executing(worker[w]))
    /\ [][/\ \A i \in Tasks :
                (task[i] = "queued" /\ task'[i] # "queued") =>
                    /\ NumExecuting < concurrency
                    /\ task'[i] = "get"
           /\ \A w \in DOMAIN worker :
                (worker[w] # 0 /\ worker'[w] # worker[w]) =>
                    /\ worker'[w] = 0
                    /\ task'[worker[w]] = "returned"]_vars

\* C7 witness: every worker of the pool is executing a call while a
\* submitted task waits in the queue.
C7_Witness ==
    /\ pc = "collect"
    /\ NumExecuting = concurrency
    /\ queue # <<>>
    /\ \E i \in Tasks : task[i] = "sleep"

ExtSamples ==
    { <<>>, <<"0">>, <<"j","p","g">>, <<"J","P","G">>, <<"0",".","j","p","g">> }

\* C8: two distinct tasks never open the same file name, and the names
\* their base names give differ whatever the extensions are.
C8_DistinctFileNames ==
    \A i, j \in Tasks :
        i # j =>
            /\ touched[i] \cap touched[j] = {}
            /\ (task[i] # "new" /\ task[j] # "new") =>
                  \A e1, e2 \in ExtSamples :
                      dest_name[i] \o <<".">> \o e1 # dest_name[j] \o <<".">> \o e2

\* C8 witness: two tasks hold their files open at the same time, named
\* 'bill 9.png' and 'bill 10.png'.
C8_Witness ==
    \E i, j \in Tasks :
        /\ i # j /\ task[i] = "write" /\ task[j] = "write"
        /\ opened[i][1] = <<"b","i","l","l"," ","9",".","p","n","g">>
        /\ opened[j][1] = <<"b","i","l","l"," ","1","0",".","p","n","g">>

\* C9 as claimed: a call that returned success has written exactly one
\* file, and a call that returned failure has created or modified none.
C9_WritesOnlyOnSuccess ==
    \A i \in Tasks :
        /\ Succeeded(i) => Cardinality(touched[i]) = 1
        /\ Failed(i) => touched[i] = {}

ResultUrls == [k \in DOMAIN results |-> results[k][1]]

\* C10: the failure report of a finished run lists exactly the URLs whose
\* call returned failure, each once, in the order of the results; the
\* counts are those of the calls that succeeded and failed. With two URLs,
\* the first answering 404 to every attempt and the second succeeding, the
\* counts are 1 and 1 and the report is that first URL.
C10_FailureReport ==
    pc = "finished" =>
        /\ \A i \in Tasks : Failed(i) <=> unique_urls[i] \in Range(failed_links)
        /\ \A i \in Tasks : Succeeded(i) => unique_urls[i] \notin Range(failed_links)
        /\ \A a, b \in DOMAIN failed_links :
              a < b =>
                  /\ failed_links[a] # failed_links[b]
                  /\ FirstPos(ResultUrls, failed_links[a])
                        < FirstPos(ResultUrls, failed_links[b])
        /\ succ = Cardinality({i \in Tasks : Succeeded(i)})
        /\ fail = Cardinality({i \in Tasks : Failed(i)})
        /\ (/\ Len(unique_urls) = 2
            /\ Range(statuses[1]) = {404}
            /\ Succeeded(2))
              => (succ = 1 /\ fail = 1 /\ failed_links = <<unique_urls[1]>>)

\* C10 witness: a finished run of two URLs that both failed, the second
\* one first, so that the report lists the second URL before the first.
C10_Witness ==
    /\ pc = "finished" /\ Len(unique_urls) = 2
    /\ Failed(1) /\ Failed(2)
    /\ Range(statuses[1]) = {404}
    /\ results[1][1] = unique_urls[2]
    /\ failed_links = <<unique_urls[2], unique_urls[1]>>

\* C11: when the run has finished, the archive holds an entry for a file
\* name exactly when some outcome of the run is a success with that name
\* and the file is in the folder at packaging time; a success whose file was
\* removed before packaging is left out and the run still finishes; a
\* failed outcome contributes no entry, and no name is entered twice.
SuccessNames == {results[k][2] : k \in {j \in DOMAIN results : results[j][3]}}
C11_ArchiveEntries ==
    pc = "finished" =>
        /\ Range(zip_entries) = SuccessNames \cap DOMAIN files
        /\ Len(zip_entries) = Cardinality(Range(zip_entries))
        /\ \A k \in DOMAIN results :
              ~results[k][3] => results[k][2] \notin Range(zip_entries)

\* A finished run with two successes, the file of one of them removed
\* before packaging: the archive is offered and holds the other one only.
C11_Witness ==
    /\ pc = "finished"
    /\ "zip" \in offered
    /\ Len(zip_entries) = 1
    /\ \E k \in DOMAIN results :
          results[k][3] /\ results[k][2] \notin DOMAIN files

\* C12: every outcome, as download_one returns it and as it is appended
\* to the results, has exactly one of file name and error: a success carries
\* a file name and no error, a failure an error and no file name.
OneOfNameOrError(ok, name, error) ==
    IF ok THEN name # None /\ name # <<>> /\ error = None
          ELSE name = None /\ error # None
C12_OneOfNameOrError ==
    /\ \A i \in Tasks :
          Returned(i) => OneOfNameOrError(future[i][1], future[i][2], future[i][3])
    /\ \A k \in DOMAIN results :
          OneOfNameOrError(results[k][3], results[k][2], results[k][4])

\* The results hold a success and a failure, the failure after a retry.
C12_Witness ==
    /\ max_retries = 1
    /\ \E k \in DOMAIN results : results[k][3] /\ results[k][2] \in DOMAIN files
    /\ \E k \in DOMAIN results : ~results[k][3] /\ results[k][4] \in {TimedOut, IoError}

\* C13: a progress event is emitted once per collected outcome. The
\* completed-count is 0 before the first outcome is collected, equals the
\* number of outcomes collected so far, grows by exactly 1 with each of them
\* and never otherwise, never exceeds the total, which does not change, and
\* is the total when the run has finished: the events carry 1, 2, ..., total.
NumCollected == Cardinality({i \in Tasks : task[i] = "collected"})
C13_ProgressCounts ==
    /\ [](/\ done = NumCollected
          /\ done = Len(log_lines)
          /\ done <= Len(unique_urls)
          /\ pc = "finished" => done = Len(unique_urls))
    /\ [][/\ Len(unique_urls') = Len(unique_urls)
          /\ done' # done => done' = done + 1 /\ pc = "collect"
          /\ NumCollected' # NumCollected => done' = done + 1]_vars

\* The second of two outcomes collected in a run that has finished: the
\* last event carried (2, 2).
C13_Witness ==
    /\ pc = "finished"
    /\ done >= 2
    /\ done = Len(unique_urls)
    /\ \E k \in DOMAIN results : ~results[k][3]

\* C14: the results, the completed-count and the log change only in a
\* step of the coordinating thread that collects one returned future: it
\* appends that future's outcome, adds 1 to the count and one line to the
\* log, and touches nothing of the workers. A step that changes anything
\* a worker owns leaves the three alone. So in every interleaving the
\* results hold one entry per collected future and no URL twice.
aggregateVars == <<results, done, log_lines>>
C14_OnlyCoordinatorAggregates ==
    /\ [](/\ Len(results) = NumCollected
          /\ \A j, k \in DOMAIN results :
                j # k => results[j][1] # results[k][1])
    /\ [][/\ aggregateVars' # aggregateVars =>
                /\ pc = "collect"
                /\ UNCHANGED <<workerVars, worker, queue>>
                /\ \E i \in Tasks :
                      /\ task[i] = "returned"
                      /\ task' = [task EXCEPT ![i] = "collected"]
                      /\ results' = Append(results, <<unique_urls[i], future[i][2],
                                                      future[i][1], future[i][3]>>)
                      /\ done' = done + 1
                      /\ Len(log_lines') = Len(log_lines) + 1
          /\ <<workerVars, worker, queue>>' # <<workerVars, worker, queue>> =>
                UNCHANGED aggregateVars]_vars

\* One outcome has been collected while two threads exist and the other
\* call is between opening its file and writing it.
C14_Witness ==
    /\ pc = "collect"
    /\ concurrency = 2
    /\ Len(results) = 1
    /\ \E i \in Tasks : task[i] = "write"

\* C15: within one call of download_one the sleep after the failed
\* attempt numbered k (from 0) lasts k+1 half-second units, so the delays are
\* 1, 2, 3, ... in attempt order. A failed attempt has recorded its reason
\* when its sleep begins; every failed attempt is followed by a sleep, the
\* last one too; no sleep follows the successful attempt; and an attempt
\* is running only with a number that is at most max_retries.
C15_LinearBackoff ==
    \A i \in Tasks :
        /\ \A k \in DOMAIN sleeps[i] : sleeps[i][k] = k
        /\ Len(sleeps[i]) <= max_retries + 1
        /\ task[i] = "sleep" =>
              /\ Len(reasons[i]) = Len(sleeps[i]) + 1
              /\ reasons[i][Len(reasons[i])] # None
              /\ last_exc[i] = reasons[i][Len(reasons[i])]
              /\ attempt[i] = Len(sleeps[i])
        /\ task[i] \in {"get", "write"} =>
              /\ Len(sleeps[i]) = attempt[i]
              /\ Len(reasons[i]) = attempt[i]
              /\ attempt[i] <= max_retries
        /\ Succeeded(i) =>
              /\ Len(sleeps[i]) = Len(reasons[i]) - 1
              /\ reasons[i][Len(reasons[i])] = None
        /\ Failed(i) =>
              /\ Len(sleeps[i]) = max_retries + 1
              /\ Len(reasons[i]) = max_retries + 1
        /\ \A k \in 1..Len(sleeps[i]) : reasons[i][k] # None

\* A call with one retry allowed has failed twice and slept 1 and then 2
\* units, and another call succeeded at its second attempt after one sleep.
C15_Witness ==
    /\ max_retries = 1
    /\ \E i \in Tasks : Failed(i) /\ sleeps[i] = <<1, 2>>
    /\ \E i \in Tasks : Succeeded(i) /\ sleeps[i] = <<1>>

\* C16: in a finished run the archive is offered exactly when some call
\* succeeded and the failure report exactly when some call failed, and the
\* two counts shown are the numbers of successful and of failed calls, which
\* add up to the number of URLs. Nothing is offered before the run finishes.
C16_OffersAndCounts ==
    /\ pc = "finished" =>
          /\ "zip" \in offered <=> \E i \in Tasks : Succeeded(i)
          /\ "csv" \in offered <=> \E i \in Tasks : Failed(i)
          /\ succ = Cardinality({i \in Tasks : Succeeded(i)})
          /\ fail = Cardinality({i \in Tasks : Failed(i)})
          /\ succ + fail = Len(unique_urls)
    /\ pc # "finished" => offered = {}

\* A finished run in which every call failed: the failure report alone is
\* offered and the counts are 0 and 2.
C16_Witness ==
    /\ pc = "finished"
    /\ offered = {"csv"}
    /\ succ = 0
    /\ fail = 2

\* The qualifying cells of a traversal, trimmed, in the traversal's order.
Qualifying(cells) ==
    LET q == SelectSeq(cells, LAMBDA cell : HasHttpSchemeCI(strip(cell)))
    IN  [k \in DOMAIN q |-> strip(q[k])]
RowMajorCells ==
    [k \in 1..(NumRows * NumCols) |->
        df[((k - 1) % NumCols) + 1][((k - 1) \div NumCols) + 1]]
ColumnMajorCells ==
    [k \in 1..(NumRows * NumCols) |->
        df[((k - 1) \div NumRows) + 1][((k - 1) % NumRows) + 1]]
FirstCell(cells, u) == SetMin({k \in DOMAIN cells : strip(cells[k]) = u})

\* C17 as claimed: the raw list of a scanned table follows the row-major
\* traversal, a qualifying cell of an earlier row before every qualifying
\* cell of a later row, and the URL list keeps the order in which its URLs
\* first occur in that traversal.
C17_RowMajorOrder ==
    scanned =>
        /\ raw_urls = Qualifying(RowMajorCells)
        /\ \A a, b \in DOMAIN unique_urls :
              a < b => FirstCell(RowMajorCells, unique_urls[a])
                          < FirstCell(RowMajorCells, unique_urls[b])

\* C17 as the code has it: the raw list of a scanned table follows the
\* column-major traversal: a qualifying cell of an earlier column comes
\* before every qualifying cell of a later column whatever their rows, and
\* within a column the cells come in row order; so the URL first met in an
\* earlier column, or higher up in the same column, has the smaller position
\* in the URL list and with it the smaller 'bill' index.
C17_ColumnMajorOrder ==
    scanned =>
        /\ raw_urls = Qualifying(ColumnMajorCells)
        /\ \A a, b \in DOMAIN unique_urls :
              a < b => FirstCell(ColumnMajorCells, unique_urls[a])
                          < FirstCell(ColumnMajorCells, unique_urls[b])

\* A scanned table whose first column has its only URL in the second row
\* and whose second column has another URL in the first row: the URL of the
\* later row is first in the list.
C17_Witness ==
    /\ scanned
    /\ ~HasHttpSchemeCI(strip(df[1][1]))
    /\ HasHttpSchemeCI(strip(df[1][2]))
    /\ HasHttpSchemeCI(strip(df[2][1]))
    /\ strip(df[1][2]) # strip(df[2][1])
    /\ unique_urls = <<strip(df[1][2]), strip(df[2][1])>>

\* C18: counting and packaging happen in one step that is taken only when
\* every dispatched call has returned and its outcome has been collected, no
\* thread is running a call and no file is open for writing; and a success
\* outcome is in the results only when its file is closed and holds the
\* whole body of the response. The archive is built from closed files.
NoOpenFile == \A n \in DOMAIN files : files[n].writer = 0
AllCollected ==
    /\ next_url > Len(unique_urls)
    /\ queue = <<>>
    /\ \A w \in DOMAIN worker : worker[w] = 0
    /\ \A i \in Tasks : task[i] = "collected"
C18_PackagingAfterCollection ==
    /\ [](/\ pc = "finished" => AllCollected /\ NoOpenFile
          /\ pc # "finished" =>
                succ = 0 /\ fail = 0 /\ zip_entries = <<>> /\ failed_links = <<>>
          /\ \A k \in DOMAIN results :
                results[k][3] =>
                    /\ results[k][2] \in DOMAIN files
                    /\ files[results[k][2]].writer = 0
                    /\ files[results[k][2]].data
                          \in {resp.content : resp \in Responses200})
    /\ [][<<succ, fail, zip_entries, failed_links, offered>>'
              # <<succ, fail, zip_entries, failed_links, offered>> =>
                /\ AllCollected /\ NoOpenFile
                /\ Len(results) = Len(unique_urls)
                /\ UNCHANGED <<files, results>>
                /\ \A k \in DOMAIN zip_entries' :
                      files[zip_entries'[k]].writer = 0]_vars

\* A finished run of two threads whose archive holds two files, one of
\* them written at the second attempt.
C18_Witness ==
    /\ pc = "finished"
    /\ concurrency = 2
    /\ Len(zip_entries) = 2
    /\ \E i \in Tasks : Succeeded(i) /\ Len(sleeps[i]) = 1

\* The files of the folder that carry the name composed for position i.
FilesOf(i) == {n \in DOMAIN files : startswith(n, ExpectedBase(i) \o <<".">>)}

\* C19 as claimed: every dispatched URL consumes an index, and after a
\* run into an empty folder the folder holds a file named 'bill S+i-1' exactly
\* for the positions i whose call succeeded, no file carries the index of
\* another position, and there are as many files as successes.
C19_FilesExactlyForSuccesses ==
    pc = "finished" =>
        /\ counter = start_index - 1 + Len(unique_urls)
        /\ \A i \in Tasks : FilesOf(i) # {} <=> Succeeded(i)
        /\ \A i, j \in Tasks : i # j => FilesOf(i) \cap FilesOf(j) = {}
        /\ Cardinality(DOMAIN files) = succ

\* C20: a run takes nothing from an earlier run, whatever files the
\* folder already holds. Every entry of the results is the outcome of one
\* of this run's own calls; every success entry and every archive entry
\* names a file that call wrote in this run, with this run's content; the
\* counts are those of this run's calls; a file of the earlier run that this
\* run did not write, same index or not, is in no result and not in the
\* archive. With an empty URL list 'Start download' creates no folder, opens
\* no session and dispatches nothing.
WrittenNow(n) ==
    \E i \in Tasks :
        /\ Succeeded(i)
        /\ future[i][2] = n
        /\ n \in touched[i]
        /\ n \in DOMAIN files
        /\ files[n].data # OldData
C20_NothingFromEarlierRuns ==
    /\ [](/\ \A k \in DOMAIN results :
                /\ \E i \in Tasks :
                      /\ task[i] = "collected"
                      /\ results[k] = <<unique_urls[i], future[i][2],
                                        future[i][1], future[i][3]>>
                /\ results[k][3] => WrittenNow(results[k][2])
          /\ pc = "finished" =>
                /\ \A k \in DOMAIN zip_entries : WrittenNow(zip_entries[k])
                /\ succ = Cardinality({i \in Tasks : Succeeded(i)})
                /\ fail = Cardinality({i \in Tasks : Failed(i)})
                /\ \A n \in DOMAIN files :
                      files[n].data = OldData =>
                          /\ n \notin Range(zip_entries)
                          /\ \A k \in DOMAIN results : results[k][2] # n
          /\ pc = "warned" =>
                /\ session = "none"
                /\ Tasks = {} /\ queue = <<>> /\ worker = <<>>
                /\ results = <<>> /\ offered = {})
    /\ [][pc' = "warned" =>
              UNCHANGED <<folder_exists, files, session, task, queue, worker,
                          future, results>>]_vars

\* A finished run from index 1 into a folder that held 'bill 1.gif' and
\* 'bill 1.png': the run wrote 'bill 1.JPG', the archive holds that file
\* alone, and the two earlier files are still in the folder.
C20_Witness ==
    /\ pc = "finished"
    /\ start_index = 1
    /\ DOMAIN PriorFiles \subseteq DOMAIN files
    /\ \A n \in DOMAIN PriorFiles : files[n].data = OldData
    /\ Len(zip_entries) = 1
    /\ zip_entries[1] \notin DOMAIN PriorFiles
    /\ FilesOf(1) = DOMAIN PriorFiles \cup {zip_entries[1]}

====
